---- MODULE Spec2Model ----
(***************************************************************************)
(* A model of the task printer (pcsutil/taskframework, TaskPrinter) and of *)
(* the upload task unit (internal/pcsfunctions/pcsupload, UploadTaskUnit). *)
(*                                                                         *)
(* Strings are sequences of runes; a rune is a one-element token such as   *)
(* "a", "\n" or "CJK1" (a double-width rune).  Formatting, splitting and   *)
(* width measurement are computed on these sequences.                      *)
(***************************************************************************)
EXTENDS Integers, Sequences, FiniteSets, TLC

VARIABLES
    \* ---- TaskPrinter fields ----
    wg,             \* p.wg: the WaitGroup counter
    updateChan,     \* p.updateChan: buffered messages, oldest first
    chanClosed,     \* close(p.updateChan) has happened
    quit,           \* p.quit
    idMap,          \* p.idMap: id -> 0-based index into p.tasks
    tasks,          \* p.tasks: sequence of taskState
    multiLineMsg,   \* p.multiLineMsg
    mask,           \* p.mask (<<>> stands for nil)
    frame,          \* p.Spinner.frame
    \* ---- threads of the printer ----
    pcLoop,         \* the goroutine running Start
    pcStop,         \* the thread calling Stop
    pcReg,          \* the thread calling SetTaskInfo
    regId,          \* the id SetTaskInfo is registering
    \* ---- the terminal ----
    screen,         \* per screen line, the width of the text it shows
    cursor,         \* the line the cursor is on
    lastFrame,      \* what the last Render emitted, and after which events
    \* ---- history of the printer ----
    sentLog,        \* events whose send on updateChan completed, in order
    appliedLog,     \* events Update received from updateChan, in order
    pending,        \* events applied by Update and not yet followed by Render
    renderedCount,  \* number of channel events followed by a Render
    reflectOK,      \* every Render so far showed the events it followed
    owner,          \* row index -> the id it was first assigned to
    ticks,          \* ticker ticks consumed
    calls,          \* calls made by tasks and executors (events, retry increments)
    \* ---- UploadTaskUnit, its checkpoint store and its executor ----
    cfg,            \* NoRapidUpload, Length > MaxRapidUploadSize, taskInfo.maxRetry
    store,          \* UploadingDatabase: the entry of this file identity
    md5,            \* LocalFileChecksum.MD5 (NoMD5 stands for nil)
    utuState,       \* utu.state
    step,           \* utu.Step
    pcRun,          \* where the executor and Run are
    result,         \* the Run Result of the current or last attempt
    retry,          \* taskInfo.retry
    outcome,        \* the executor's overall outcome
    failedResult,   \* the result handed to OnFailed
    seed,           \* the instance state the multipart uploader was seeded with
    uploaded,       \* blocks the multipart uploader transferred in this run
    updateReady,    \* the "update available" signal is ready
    pcStatus,       \* the status callback: idle, or between signal and upsert
    statusCalls,    \* status callbacks fired
    runs,           \* calls of Run
    allRetry,       \* every Run so far returned NeedRetry
    hist            \* what the current run did

printerVars == <<wg, updateChan, chanClosed, quit, idMap, tasks, multiLineMsg,
                 mask, frame, pcLoop, pcStop, pcReg, regId, screen, cursor,
                 lastFrame, sentLog, appliedLog, pending, renderedCount,
                 reflectOK, owner, ticks, calls>>

uploadVars == <<cfg, store, md5, utuState, step, pcRun, result, retry, outcome,
                failedResult, seed, uploaded, updateReady, pcStatus,
                statusCalls, runs, allRetry, hist>>

vars == <<printerVars, uploadVars>>

-----------------------------------------------------------------------------
\* Bounds of the model.
MaxTasks == 2
MaxEvents == 2
MaxTicks == 1
MaxRetryIncr == 1

MaxRetryCeiling == 2
NumBlocks == 2
MaxStatusCalls == 2

\* Program constants.
StepUploadInit == 0
StepUploadRapidUpload == 1
StepUploadUpload == 2
CodeDirAbsent == 31066
CodeExceedQuota == 31112
CodeStateExpired == 31363
CodeNameExists == 31061
TaskWait == 0
TaskRun == 1
TaskDone == 2
TaskFail == 3
ChanCap == 1
Margin == 4
PromptWidth == 5

Stats == {TaskWait, TaskRun, TaskDone, TaskFail}

\* Task ids, as rune sequences.
Ids == {<<"f", "1">>, <<"f", "2">>}
\* An id no task is ever registered under.
StrayId == <<"z">>

\* Runes that occupy two terminal cells.
WideRunes == {"CJK1", "CJK2", "CJK3", "CJK4", "CJK5"}

\* The braille frames of Dot, one token per frame.
Frames == <<"sp0", "sp1", "sp2", "sp3", "sp4", "sp5", "sp6", "sp7">>

\* "初始化..."
InitMsg == <<"CJK1", "CJK2", "CJK3", ".", ".", ".">>

Separator == <<"-", "-", "-", "-", "-", "-", "-", "-">>

\* Formatted texts handed to a print function.
RawMsgs == { <<"a">>,
             <<"a", "b", "c", "d", "e", "f", "g", "h", "i", "j", "k", "l">>,
             <<"a", "\n">>,
             <<"\n">>,
             <<"a", "b", "c", "\n", "d">> }

Max(a, b) == IF a >= b THEN a ELSE b

-----------------------------------------------------------------------------
\* String functions.

RECURSIVE TrimTrailingNewlines(_)
TrimTrailingNewlines(s) ==
    IF Len(s) >= 1 /\ s[Len(s)] = "\n"
    THEN TrimTrailingNewlines(SubSeq(s, 1, Len(s) - 1))
    ELSE s

Contains(s, c) == \E i \in 1..Len(s) : s[i] = c

IndexOf(s, c) ==
    IF Contains(s, c)
    THEN CHOOSE i \in 1..Len(s) : s[i] = c /\ \A j \in 1..(i - 1) : s[j] # c
    ELSE 0

RECURSIVE Split(_, _)
Split(s, sep) ==
    IF IndexOf(s, sep) = 0
    THEN <<s>>
    ELSE <<SubSeq(s, 1, IndexOf(s, sep) - 1)>>
         \o Split(SubSeq(s, IndexOf(s, sep) + 1, Len(s)), sep)

RuneWidth(c) == IF c \in WideRunes THEN 2 ELSE 1

RECURSIVE StringWidth(_)
StringWidth(s) ==
    IF s = <<>> THEN 0 ELSE RuneWidth(Head(s)) + StringWidth(Tail(s))

Repeat(c, n) == [i \in 1..n |-> c]

DigitRune(n) ==
    CASE n = 0 -> "0" [] n = 1 -> "1" [] n = 2 -> "2" [] n = 3 -> "3"
      [] n = 4 -> "4" [] n = 5 -> "5" [] n = 6 -> "6" [] n = 7 -> "7"
      [] n = 8 -> "8" [] OTHER -> "9"

\* fmt.Sprintf("%d", n) for 0 <= n <= 99
RECURSIVE FormatInt(_)
FormatInt(n) ==
    IF n < 10 THEN <<DigitRune(n)>> ELSE FormatInt(n \div 10) \o <<DigitRune(n % 10)>>

\* fmt.Sprintf("[%s] %s", id, msg)
FormatMultiLine(id, msg) == <<"[">> \o id \o <<"]", " ">> \o msg

\* fmt.Sprintf(" (重试: %d/%d)", retry, maxRetry)
FormatRetry(n, ceiling) ==
    <<" ", "(", "CJK4", "CJK5", ":", " ">> \o FormatInt(n) \o <<"/">>
    \o FormatInt(ceiling) \o <<")">>

-----------------------------------------------------------------------------
\* Messages on updateChan.
QuitMsg == [type |-> "quit"]
SpinnerMsg == [type |-> "spinner"]
NilMsg == [type |-> "nil"]
StatMsg(id, stat) == [type |-> "stat", id |-> id, stat |-> stat]
TaskMsg(id, msg) == [type |-> "task", id |-> id, msg |-> msg]

\* Spinner.String
SpinnerString(f) == Frames[(f % Len(Frames)) + 1]

StatGlyph(stat, f) ==
    CASE stat = TaskWait -> "-"
      [] stat = TaskRun -> SpinnerString(f)
      [] stat = TaskDone -> "check"
      [] stat = TaskFail -> "X"
      [] OTHER -> " "

\* One row of the table.
RowString(t, f) ==
    <<StatGlyph(t.stat, f)>> \o <<" ", "[">> \o t.info.id \o <<"]">>
    \o (IF t.msg # <<>> THEN <<" ">> \o t.msg ELSE <<>>)
    \o (IF t.info.retry > 0 THEN FormatRetry(t.info.retry, t.info.maxRetry) ELSE <<>>)

\* The lines Render builds.
RenderStrs(mlm, ts, f) ==
    (IF mlm # <<>> THEN Split(mlm, "\n") ELSE <<>>)
    \o <<Separator>>
    \o [i \in 1..Len(ts) |-> RowString(ts[i], f)]

\* Lines the cursor is moved up before the frame is written (0: not moved).
MoveUp(m, ts) == IF m # <<>> THEN Len(ts) + 1 ELSE 0

\* Trailing spaces written after line i (1-based) of width l.
Pad(m, i, l) == IF i <= Len(m) /\ l < m[i] + Margin THEN m[i] - l + Margin ELSE 0

\* What a screen line shows after text of width l and pad spaces are written
\* over a line that showed text of width old.
Overwrite(old, l, pad) == IF old > l + pad THEN old ELSE l

ScreenAt(scr, j) == IF j <= Len(scr) THEN scr[j] ELSE 0

-----------------------------------------------------------------------------
\* TaskPrinter.Update, as functions of the message.

\* The 1-based row a message addresses through idMap; 0 when it addresses none.
UpdateRow(m, im) ==
    IF m.type = "stat" /\ m.id \in DOMAIN im THEN im[m.id] + 1
    ELSE IF m.type = "task" /\ ~Contains(m.msg, "\n") /\ m.id \in DOMAIN im
    THEN im[m.id] + 1
    ELSE 0

\* p.tasks[i] with i out of range: a run-time panic.
UpdatePanics(m, im, ts) == UpdateRow(m, im) > Len(ts)

\* An Update whose status change also resets the message of the row.
UpdateTasksStatResetsMsg(m, im, ts) ==
    IF UpdateRow(m, im) = 0 THEN ts
    ELSE IF m.type = "stat"
    THEN [ts EXCEPT ![UpdateRow(m, im)].stat = m.stat, ![UpdateRow(m, im)].msg = <<>>]
    ELSE [ts EXCEPT ![UpdateRow(m, im)].msg = m.msg]

UpdateTasks(m, im, ts) ==
    IF UpdateRow(m, im) = 0 THEN ts
    ELSE IF m.type = "stat"
    THEN [ts EXCEPT ![UpdateRow(m, im)].stat = m.stat]
    ELSE [ts EXCEPT ![UpdateRow(m, im)].msg = m.msg]

UpdateMultiLine(m, mlm) ==
    IF m.type = "task" /\ Contains(m.msg, "\n")
    THEN FormatMultiLine(m.id, m.msg)
    ELSE mlm

UpdateQuit(m, q) == IF m.type = "quit" THEN TRUE ELSE q

UpdateFrame(m, f) == IF m.type = "spinner" THEN f + 1 ELSE f

\* A message event with an interior line break.
IsMultiLine(m) == m.type = "task" /\ Contains(m.msg, "\n")

\* The multi-line message events among the applied events es.
MultiLineOf(es) ==
    LET picked == {k \in 1..Len(es) : IsMultiLine(es[k].ev)}
        nth(n) == CHOOSE k \in picked : Cardinality({j \in picked : j < k}) = n - 1
    IN  [n \in 1..Cardinality(picked) |-> es[nth(n)].ev]

\* A Render that leaves the block in place.
RenderKeepsBlock(mlm) == mlm

\* Render: p.multiLineMsg after the block was taken into the frame.
RenderClearsBlock(mlm) == <<>>

\* A loop that goes back to the select without rendering.
AfterUpdateSkipsRender(q) == IF q THEN "exited" ELSE "select"

\* Where the loop of Start goes after Update: it returns when quit is set
\* after a channel message, and renders again otherwise.
AfterUpdate(q) == IF q THEN "exited" ELSE "render"

-----------------------------------------------------------------------------
\* The state after NewTaskPrinter and "go p.Start()".
PrinterInit ==
    /\ wg = 0
    /\ updateChan = <<>>
    /\ chanClosed = FALSE
    /\ quit = FALSE
    /\ idMap = <<>>
    /\ tasks = <<>>
    /\ multiLineMsg = <<>>
    /\ mask = <<>>
    /\ frame = 0
    /\ pcLoop = "launched"
    /\ pcStop = "idle"
    /\ pcReg = "idle"
    /\ regId = <<>>
    /\ screen = <<PromptWidth>>
    /\ cursor = 2
    /\ lastFrame = [first |-> TRUE, up |-> 0, prevLines |-> 0, prevRows |-> 0,
                    rows |-> 0, lines |-> <<>>, blocks |-> 0,
                    afterMulti |-> <<>>]
    /\ sentLog = <<>>
    /\ appliedLog = <<>>
    /\ pending = <<>>
    /\ renderedCount = 0
    /\ reflectOK = TRUE
    /\ owner = <<>>
    /\ ticks = 0
    /\ calls = 0

Alive == pcLoop # "panicked"

\* An id whose SetTaskInfo call has returned.
Registered(id) == id \in DOMAIN idMap /\ ~(pcReg = "mapped" /\ regId = id)

\* A row index one too small: the last row is handed out again.
NextIndexReusesLast(ts) == IF Len(ts) = 0 THEN 0 ELSE Len(ts) - 1

\* The index SetTaskInfo binds to a new id: len(p.tasks).
NextIndex(ts) == Len(ts)

\* SetTaskInfo, first statement: p.idMap[info.Id()] = len(p.tasks)
SetTaskInfoMap(id) ==
    /\ Alive
    /\ pcReg = "idle"
    /\ pcStop = "idle"
    /\ Len(tasks) < MaxTasks
    /\ idMap' = [x \in (DOMAIN idMap) \cup {id} |->
                    IF x = id THEN NextIndex(tasks) ELSE idMap[x]]
    /\ owner' = IF NextIndex(tasks) \in DOMAIN owner THEN owner
                ELSE [n \in (DOMAIN owner) \cup {NextIndex(tasks)} |->
                        IF n = NextIndex(tasks) THEN id ELSE owner[n]]
    /\ regId' = id
    /\ pcReg' = "mapped"
    /\ UNCHANGED <<wg, updateChan, chanClosed, quit, tasks, multiLineMsg, mask,
                   frame, pcLoop, pcStop, screen, cursor, lastFrame, sentLog,
                   appliedLog, pending, renderedCount, reflectOK, ticks, calls>>
    /\ UNCHANGED uploadVars

\* SetTaskInfo, second statement: p.tasks = append(p.tasks, &taskState{...})
SetTaskInfoAppend ==
    /\ Alive
    /\ pcReg = "mapped"
    /\ tasks' = Append(tasks, [info |-> [id |-> regId, retry |-> 0,
                                         maxRetry |-> MaxRetryIncr],
                               stat |-> TaskWait,
                               msg |-> InitMsg])
    /\ pcReg' = "idle"
    /\ UNCHANGED <<wg, updateChan, chanClosed, quit, idMap, multiLineMsg, mask,
                   frame, pcLoop, pcStop, regId, screen, cursor, lastFrame,
                   sentLog, appliedLog, pending, renderedCount, reflectOK,
                   owner, ticks, calls>>
    /\ UNCHANGED uploadVars

\* The retry executor increments the retry counter of a task info.
RetryIncrement(i) ==
    /\ Alive
    /\ pcStop = "idle"
    /\ i \in 1..Len(tasks)
    /\ tasks[i].info.retry < tasks[i].info.maxRetry
    /\ calls < MaxEvents
    /\ calls' = calls + 1
    /\ tasks' = [tasks EXCEPT ![i].info.retry = @ + 1]
    /\ UNCHANGED <<wg, updateChan, chanClosed, quit, idMap, multiLineMsg, mask,
                   frame, pcLoop, pcStop, pcReg, regId, screen, cursor,
                   lastFrame, sentLog, appliedLog, pending, renderedCount,
                   reflectOK, owner, ticks>>
    /\ UNCHANGED uploadVars

\* Ids a producer sends events for: tasks that were registered, or a stray id.
SendIds == {id \in Ids : Registered(id)} \cup {StrayId}

\* StatChange: p.updateChan <- statMsg{id, stat}
StatChange(id, stat) ==
    /\ Alive
    /\ pcStop = "idle"
    /\ calls < MaxEvents
    /\ ~chanClosed
    /\ Len(updateChan) < ChanCap
    /\ updateChan' = Append(updateChan, StatMsg(id, stat))
    /\ sentLog' = Append(sentLog, StatMsg(id, stat))
    /\ calls' = calls + 1
    /\ UNCHANGED <<wg, chanClosed, quit, idMap, tasks, multiLineMsg, mask,
                   frame, pcLoop, pcStop, pcReg, regId, screen, cursor,
                   lastFrame, appliedLog, pending, renderedCount, reflectOK,
                   owner, ticks>>
    /\ UNCHANGED uploadVars

\* The function GetPrintFunc(id) returns, called with a text that formats to raw:
\* trailing newlines are removed, an empty text is not sent.
PrintFunc(id, raw) ==
    /\ Alive
    /\ pcStop = "idle"
    /\ calls < MaxEvents
    /\ calls' = calls + 1
    /\ IF TrimTrailingNewlines(raw) = <<>>
       THEN UNCHANGED <<updateChan, sentLog>>
       ELSE /\ ~chanClosed
            /\ Len(updateChan) < ChanCap
            /\ updateChan' = Append(updateChan, TaskMsg(id, TrimTrailingNewlines(raw)))
            /\ sentLog' = Append(sentLog, TaskMsg(id, TrimTrailingNewlines(raw)))
    /\ UNCHANGED <<wg, chanClosed, quit, idMap, tasks, multiLineMsg, mask,
                   frame, pcLoop, pcStop, pcReg, regId, screen, cursor,
                   lastFrame, appliedLog, pending, renderedCount, reflectOK,
                   owner, ticks>>
    /\ UNCHANGED uploadVars

-----------------------------------------------------------------------------
\* TaskPrinter.Render on the terminal.

\* The screen line the first line of the frame is written on.
FrameStart(m, ts, cur) == IF MoveUp(m, ts) = 0 THEN cur ELSE Max(1, cur - MoveUp(m, ts))

\* The line records of the frame Render emits: text, trailing spaces, the
\* width of what the screen line showed before, and whether it is a task row.
FrameLines(strs, m, ts, scr, cur) ==
    [i \in 1..Len(strs) |->
        [text |-> strs[i],
         pad  |-> Pad(m, i, StringWidth(strs[i])),
         old  |-> ScreenAt(scr, FrameStart(m, ts, cur) + i - 1),
         row  |-> i > Len(strs) - Len(ts)]]

ScreenAfter(strs, m, ts, scr, cur) ==
    [j \in 1..Max(Len(scr), FrameStart(m, ts, cur) + Len(strs) - 1) |->
        IF j >= FrameStart(m, ts, cur) /\ j < FrameStart(m, ts, cur) + Len(strs)
        THEN Overwrite(ScreenAt(scr, j),
                       StringWidth(strs[j - FrameStart(m, ts, cur) + 1]),
                       Pad(m, j - FrameStart(m, ts, cur) + 1,
                           StringWidth(strs[j - FrameStart(m, ts, cur) + 1])))
        ELSE scr[j]]

\* Whether the lines strs show the effect of event e, which Update applied to
\* row e.row (0: to no row).
Reflects(e, strs, ts) ==
    IF e.ev.type = "task" /\ Contains(e.ev.msg, "\n")
    THEN /\ Len(strs) = Len(Split(FormatMultiLine(e.ev.id, e.ev.msg), "\n")) + 1 + Len(ts)
         /\ SubSeq(strs, 1, Len(strs) - 1 - Len(ts))
                = Split(FormatMultiLine(e.ev.id, e.ev.msg), "\n")
    ELSE IF e.row = 0 THEN TRUE
    ELSE LET line == strs[Len(strs) - Len(ts) + e.row]
             off  == 4 + Len(ts[e.row].info.id)
         IN  IF e.ev.type = "stat"
             THEN e.ev.stat \in Stats => line[1] = StatGlyph(e.ev.stat, frame)
             ELSE /\ Len(line) >= off + 1 + Len(e.ev.msg)
                  /\ line[off + 1] = " "
                  /\ SubSeq(line, off + 2, off + 1 + Len(e.ev.msg)) = e.ev.msg

\* Start: the goroutine is scheduled; p.wg.Add(1), the ticker is created.
LoopStart ==
    /\ pcLoop = "launched"
    /\ wg' = wg + 1
    /\ pcLoop' = "render"
    /\ UNCHANGED <<updateChan, chanClosed, quit, idMap, tasks, multiLineMsg,
                   mask, frame, pcStop, pcReg, regId, screen, cursor,
                   lastFrame, sentLog, appliedLog, pending, renderedCount,
                   reflectOK, owner, ticks, calls>>
    /\ UNCHANGED uploadVars

\* Start: p.Render() at the top of the loop.
LoopRender ==
    /\ pcLoop = "render"
    /\ LET strs == RenderStrs(multiLineMsg, tasks, frame) IN
        /\ lastFrame' = [first |-> mask = <<>>,
                         up |-> MoveUp(mask, tasks),
                         prevLines |-> Len(mask),
                         prevRows |-> lastFrame.rows,
                         rows |-> Len(tasks),
                         lines |-> FrameLines(strs, mask, tasks, screen, cursor),
                         blocks |-> lastFrame.blocks
                                    + (IF Len(strs) > 1 + Len(tasks) THEN 1 ELSE 0),
                         afterMulti |-> MultiLineOf(pending)]
        /\ screen' = ScreenAfter(strs, mask, tasks, screen, cursor)
        /\ cursor' = FrameStart(mask, tasks, cursor) + Len(strs)
        /\ mask' = [i \in 1..Len(strs) |-> StringWidth(strs[i])]
        /\ reflectOK' = (reflectOK /\ \A k \in 1..Len(pending) :
                                          Reflects(pending[k], strs, tasks))
    /\ multiLineMsg' = RenderClearsBlock(multiLineMsg)
    /\ renderedCount' = renderedCount + Len(pending)
    /\ pending' = <<>>
    /\ pcLoop' = "select"
    /\ UNCHANGED <<wg, updateChan, chanClosed, quit, idMap, tasks, frame,
                   pcStop, pcReg, regId, sentLog, appliedLog, owner, ticks, calls>>
    /\ UNCHANGED uploadVars

\* Start: case <-p.ticker.C
LoopTick ==
    /\ pcLoop = "select"
    /\ ticks < MaxTicks
    /\ ticks' = ticks + 1
    /\ frame' = UpdateFrame(SpinnerMsg, frame)
    /\ pcLoop' = "render"
    /\ UNCHANGED <<wg, updateChan, chanClosed, quit, idMap, tasks, multiLineMsg,
                   mask, pcStop, pcReg, regId, screen, cursor, lastFrame,
                   sentLog, appliedLog, pending, renderedCount, reflectOK,
                   owner, calls>>
    /\ UNCHANGED uploadVars

\* Start: case m := <-p.updateChan, then p.Update(m) and the test of p.quit;
\* on return the deferred p.ticker.Stop() and p.wg.Done() run.
LoopRecv ==
    /\ pcLoop = "select"
    /\ updateChan # <<>> \/ chanClosed
    /\ LET m == IF updateChan # <<>> THEN Head(updateChan) ELSE NilMsg IN
        /\ updateChan' = IF updateChan # <<>> THEN Tail(updateChan) ELSE updateChan
        /\ IF UpdatePanics(m, idMap, tasks)
           THEN /\ pcLoop' = "panicked"
                /\ UNCHANGED <<wg, quit, tasks, multiLineMsg, appliedLog, pending>>
           ELSE /\ tasks' = UpdateTasks(m, idMap, tasks)
                /\ multiLineMsg' = UpdateMultiLine(m, multiLineMsg)
                /\ quit' = UpdateQuit(m, quit)
                /\ pcLoop' = AfterUpdate(quit')
                /\ wg' = IF AfterUpdate(quit') = "exited" THEN wg - 1 ELSE wg
                /\ IF m.type \in {"stat", "task"}
                   THEN /\ appliedLog' = Append(appliedLog, m)
                        /\ pending' = Append(pending,
                                [ev |-> m, row |-> UpdateRow(m, idMap)])
                   ELSE UNCHANGED <<appliedLog, pending>>
    /\ UNCHANGED <<chanClosed, idMap, mask, frame, pcStop, pcReg, regId, screen,
                   cursor, lastFrame, sentLog, renderedCount, reflectOK, owner,
                   ticks, calls>>
    /\ UNCHANGED uploadVars

\* Stop: p.updateChan <- quitMsg{}
StopSend ==
    /\ Alive
    /\ pcStop = "idle"
    /\ Len(updateChan) < ChanCap
    /\ updateChan' = Append(updateChan, QuitMsg)
    /\ pcStop' = "sent"
    /\ UNCHANGED <<wg, chanClosed, quit, idMap, tasks, multiLineMsg, mask,
                   frame, pcLoop, pcReg, regId, screen, cursor, lastFrame,
                   sentLog, appliedLog, pending, renderedCount, reflectOK,
                   owner, ticks, calls>>
    /\ UNCHANGED uploadVars

\* Stop: close(p.updateChan)
StopClose ==
    /\ Alive
    /\ pcStop = "sent"
    /\ chanClosed' = TRUE
    /\ pcStop' = "closed"
    /\ UNCHANGED <<wg, updateChan, quit, idMap, tasks, multiLineMsg, mask,
                   frame, pcLoop, pcReg, regId, screen, cursor, lastFrame,
                   sentLog, appliedLog, pending, renderedCount, reflectOK,
                   owner, ticks, calls>>
    /\ UNCHANGED uploadVars

\* Stop: p.wg.Wait() returns when the counter is zero.
StopWait ==
    /\ Alive
    /\ pcStop = "closed"
    /\ wg = 0
    /\ pcStop' = "returned"
    /\ UNCHANGED <<wg, updateChan, chanClosed, quit, idMap, tasks, multiLineMsg,
                   mask, frame, pcLoop, pcReg, regId, screen, cursor, lastFrame,
                   sentLog, appliedLog, pending, renderedCount, reflectOK,
                   owner, ticks, calls>>
    /\ UNCHANGED uploadVars

PrinterNext ==
    \/ \E id \in Ids : SetTaskInfoMap(id)
    \/ SetTaskInfoAppend
    \/ \E i \in 1..MaxTasks : RetryIncrement(i)
    \/ \E id \in SendIds, stat \in Stats : StatChange(id, stat)
    \/ \E id \in SendIds, raw \in RawMsgs : PrintFunc(id, raw)
    \/ LoopStart
    \/ LoopRender
    \/ LoopTick
    \/ LoopRecv
    \/ StopSend
    \/ StopClose
    \/ StopWait

-----------------------------------------------------------------------------
\* The upload task unit: values.

Blocks == 1..NumBlocks

NoMD5 == <<>>
\* The MD5 of the local file, as bytes.
LocalMD5 == <<171, 205>>

\* utu.panFile, and another name in the same remote directory.
PanFile == "leaf"
OtherFile == "other"

HexDigits == <<"0", "1", "2", "3", "4", "5", "6", "7", "8", "9",
               "a", "b", "c", "d", "e", "f">>
UpperHexDigits == <<"0", "1", "2", "3", "4", "5", "6", "7", "8", "9",
                    "A", "B", "C", "D", "E", "F">>

IsHex(c) == \E v \in 1..16 : HexDigits[v] = c \/ UpperHexDigits[v] = c
HexVal(c) == (CHOOSE v \in 1..16 : HexDigits[v] = c \/ UpperHexDigits[v] = c) - 1

\* hex.DecodeString: the bytes decoded before the first error.
RECURSIVE HexDecode(_)
HexDecode(h) ==
    IF Len(h) < 2 THEN <<>>
    ELSE IF IsHex(h[1]) /\ IsHex(h[2])
    THEN <<16 * HexVal(h[1]) + HexVal(h[2])>> \o HexDecode(SubSeq(h, 3, Len(h)))
    ELSE <<>>

\* The two spellings of a byte string in hexadecimal.
RECURSIVE HexSpell(_, _)
HexSpell(b, digits) ==
    IF b = <<>> THEN <<>>
    ELSE <<digits[(Head(b) \div 16) + 1], digits[(Head(b) % 16) + 1]>>
         \o HexSpell(Tail(b), digits)

\* Entries a listing of the remote parent directory may hold.
RemoteEntries ==
    { [name |-> PanFile,   md5 |-> <<"a", "b", "c", "d">>],
      [name |-> PanFile,   md5 |-> <<"A", "B", "C", "D">>],
      [name |-> PanFile,   md5 |-> <<"a", "b", "c", "e">>],
      [name |-> PanFile,   md5 |-> <<"a", "b", "z", "d">>],
      [name |-> OtherFile, md5 |-> <<"a", "b", "c", "d">>],
      [name |-> OtherFile, md5 |-> <<>>] }

\* Errors: pcs tells a pcserror.Error from any other error.
NoErr == [pcs |-> FALSE, type |-> "nil", code |-> 0, text |-> <<>>]
PlainErr(t) == [pcs |-> FALSE, type |-> "plain", code |-> 0, text |-> <<t>>]
RemoteErr(c) == [pcs |-> TRUE, type |-> "remote", code |-> c, text |-> <<"remote">>]
NetErr(t) == [pcs |-> TRUE, type |-> "net", code |-> 0, text |-> t]
OtherPcsErr == [pcs |-> TRUE, type |-> "others", code |-> 0, text |-> <<"json">>]

TooLarge == "413 Request Entity Too Large"

\* Errors the multipart uploader may report.
UploadErrs ==
    { PlainErr("canceled"),
      RemoteErr(CodeStateExpired), RemoteErr(CodeNameExists), RemoteErr(CodeExceedQuota),
      NetErr(<<"Post", TooLarge>>), NetErr(<<"Post", "timeout">>),
      OtherPcsErr }

\* Errors of the directory listing and of the rapid-upload call (all pcserror).
ListErrs == { RemoteErr(CodeDirAbsent), RemoteErr(CodeNameExists),
              NetErr(<<"Get", "timeout">>), OtherPcsErr }
RapidErrs == { RemoteErr(CodeExceedQuota), RemoteErr(CodeNameExists),
               NetErr(<<"Post", "timeout">>) }

\* Run Results.
EmptyResult == [present |-> TRUE, succeed |-> FALSE, needRetry |-> FALSE,
                msg |-> "", err |-> NoErr]
NilResult == [EmptyResult EXCEPT !.present = FALSE]

\* Entries of the checkpoint store; done: the blocks marked complete.
Absent == [kind |-> "absent", done |-> {}]
Placeholder == [kind |-> "placeholder", done |-> {}]
Checkpoint(d) == [kind |-> "state", done |-> d]
NilState == [kind |-> "nil", done |-> {}]

\* What a run did.  lines: the messages it emitted through Printf; opened:
\* OpenPath succeeded; searched:
\* prepareFile looked the identity up in the store; cached: the MD5 was in
\* memory when Run was called; sums and rapids count, over all runs of the
\* unit, the successful hash computations and the rapid-upload calls; the cb
\* fields count the status callbacks of the run: ended, having taken the
\* signal, having written the store, and the progress lines they emitted.
NoHist == [found |-> Absent, enteredRapid |-> FALSE, enteredUpload |-> FALSE,
           listed |-> FALSE, match |-> FALSE, sumCalled |-> FALSE,
           rapidCalled |-> FALSE, rapidErr |-> NoErr, writes |-> 0,
           seeded |-> NilState, uploadErr |-> NoErr, errStoreBefore |-> Absent,
           errStoreAfter |-> Absent,
           lines |-> <<>>, opened |-> FALSE, searched |-> FALSE, cached |-> FALSE,
           sums |-> 0, rapids |-> 0, listErr |-> NoErr,
           cbDone |-> 0, cbSignal |-> 0, cbPersist |-> 0, cbProgress |-> 0]

\* The history a new run starts with: the counts over all runs are kept.
RunHist(h, st, m) ==
    [NoHist EXCEPT !.found = st, !.cached = (m # NoMD5),
                   !.sums = h.sums, !.rapids = h.rapids]

-----------------------------------------------------------------------------
\* The checkpoint store (UploadingDatabase).

\* Search: the resume state of the entry, nil when there is none.
Search(st) == IF st.kind = "state" THEN st ELSE NilState

\* Search hands the hashes recorded with an entry back to the identity.
SearchMD5(st, m) == IF st.kind # "absent" THEN LocalMD5 ELSE m

\* UpdateUploading(meta, state) followed by Save.
UpdateUploading(state) ==
    IF state.kind = "nil" THEN Placeholder ELSE Checkpoint(state.done)

-----------------------------------------------------------------------------
\* UploadTaskUnit.prepareFile

\* A prepareFile that does not look at the cached MD5.
prepareFileIgnoresMD5(state, m, c) ==
    IF state.kind # "nil" THEN StepUploadUpload
    ELSE IF c.noRapid THEN StepUploadUpload
    ELSE IF c.tooBig THEN StepUploadUpload
    ELSE StepUploadRapidUpload

\* A prepareFile without the size test.
prepareFileIgnoresSize(state, m, c) ==
    IF state.kind # "nil" \/ m # NoMD5 THEN StepUploadUpload
    ELSE IF c.noRapid THEN StepUploadUpload
    ELSE StepUploadRapidUpload

prepareFile(state, m, c) ==
    IF state.kind # "nil" \/ m # NoMD5 THEN StepUploadUpload
    ELSE IF c.noRapid THEN StepUploadUpload
    ELSE IF c.tooBig THEN StepUploadUpload
    ELSE StepUploadRapidUpload

\* The message prepareFile emits: only on the size test, which is reached
\* when the earlier tests did not choose Upload.
PrepareLines(state, m, c) ==
    IF state.kind = "nil" /\ m = NoMD5 /\ ~c.noRapid /\ c.tooBig
    THEN <<"over 20GB, skip rapid upload">>
    ELSE <<>>

\* UploadTaskUnit.rapidUpload

\* A comparison of the remote text with the lower-case spelling of the local
\* MD5 instead of a comparison of the decoded bytes.
DedupHitByText(entries, leaf, m) ==
    \E fd \in entries : fd.name = leaf /\ fd.md5 = HexSpell(m, HexDigits)

\* The listing holds an entry of the leaf name whose decoded MD5 is the local one.
DedupHit(entries, leaf, m) ==
    \E fd \in entries : fd.name = leaf /\ HexDecode(fd.md5) = m

\* The quota test reading the wrong remote code.
QuotaExceededWrongCode(e) == e.pcs /\ e.type = "remote" /\ e.code = CodeNameExists

QuotaExceeded(e) == e.pcs /\ e.type = "remote" /\ e.code = CodeExceedQuota

\* A listing test that takes "directory absent" for a failure.
ListingFailsOnAbsent(e) == e # NoErr

\* The listing error ends the stage (anything but remote "directory absent").
ListingFails(e) == e # NoErr /\ ~(e.type = "remote" /\ e.code = CodeDirAbsent)

\* rapidUpload with the listing (entries, lerr), the outcome of Sum and the
\* outcome of the rapid-upload call: what it returns and what it did (lines:
\* the messages it emitted after the hashes were computed).
rapidUpload(entries, lerr, sumOk, rerr) ==
    IF ListingFails(lerr)
    THEN [continue |-> FALSE,
          result |-> [EmptyResult EXCEPT !.msg = "list error", !.err = lerr,
                                         !.needRetry = (lerr.type # "remote")],
          summed |-> FALSE, rapidCalled |-> FALSE, placeholder |-> FALSE,
          lines |-> <<>>]
    ELSE IF ~sumOk
    THEN [continue |-> FALSE,
          result |-> [EmptyResult EXCEPT !.msg = "sum error", !.err = PlainErr("read")],
          summed |-> FALSE, rapidCalled |-> FALSE, placeholder |-> FALSE,
          lines |-> <<>>]
    ELSE IF lerr = NoErr /\ DedupHit(entries, PanFile, LocalMD5)
    THEN [continue |-> FALSE,
          result |-> [EmptyResult EXCEPT !.succeed = TRUE],
          summed |-> TRUE, rapidCalled |-> FALSE, placeholder |-> FALSE,
          lines |-> <<"target exists, skip">>]
    ELSE IF rerr = NoErr
    THEN [continue |-> FALSE,
          result |-> [EmptyResult EXCEPT !.succeed = TRUE],
          summed |-> TRUE, rapidCalled |-> TRUE, placeholder |-> FALSE,
          lines |-> <<"rapid upload succeeded">>]
    ELSE IF QuotaExceeded(rerr)
    THEN [continue |-> FALSE,
          result |-> [EmptyResult EXCEPT !.msg = "exceed quota"],
          summed |-> TRUE, rapidCalled |-> TRUE, placeholder |-> FALSE,
          lines |-> <<>>]
    ELSE [continue |-> TRUE,
          result |-> EmptyResult,
          summed |-> TRUE, rapidCalled |-> TRUE, placeholder |-> TRUE,
          lines |-> <<"rapid upload failed, uploading">>]

\* The hint rapidUpload emits before the hashes of a file of 128 MB or more
\* are computed.
SumHint(lerr, large) ==
    IF ~ListingFails(lerr) /\ large THEN <<"checking rapid upload">> ELSE <<>>

-----------------------------------------------------------------------------
\* UploadTaskUnit.upload

\* An upload that never seeds the uploader.
SeedNever(state) == NilState

\* if utu.state != nil { muer.SetInstanceState(utu.state) }
Seed(state) == IF state.kind # "nil" THEN state ELSE NilState

\* muer.InstanceState(): the blocks complete so far.
InstanceState(sd, up) == Checkpoint(sd.done \cup up)

\* An error handler that retries a duplicate-name rejection.
OnErrorRetriesNameExists(e, r) ==
    IF ~e.pcs THEN [r EXCEPT !.msg = "upload error", !.err = e]
    ELSE IF e.type = "remote" /\ e.code = CodeStateExpired
    THEN [r EXCEPT !.needRetry = TRUE, !.msg = "upload failed", !.err = PlainErr("expired")]
    ELSE IF e.type = "remote"
    THEN [r EXCEPT !.needRetry = TRUE, !.msg = "upload failed", !.err = e]
    ELSE IF e.type = "net"
    THEN [r EXCEPT !.needRetry = ~Contains(e.text, TooLarge),
                   !.msg = "upload failed", !.err = e]
    ELSE [r EXCEPT !.needRetry = FALSE, !.msg = "upload failed", !.err = e]

\* The OnError handler: the result it leaves.
OnErrorResult(e, r) ==
    IF ~e.pcs THEN [r EXCEPT !.msg = "upload error", !.err = e]
    ELSE IF e.type = "remote" /\ e.code = CodeStateExpired
    THEN [r EXCEPT !.needRetry = TRUE, !.msg = "upload failed", !.err = PlainErr("expired")]
    ELSE IF e.type = "remote" /\ e.code = CodeNameExists
    THEN [r EXCEPT !.needRetry = FALSE, !.msg = "upload failed", !.err = e]
    ELSE IF e.type = "remote"
    THEN [r EXCEPT !.needRetry = TRUE, !.msg = "upload failed", !.err = e]
    ELSE IF e.type = "net"
    THEN [r EXCEPT !.needRetry = ~Contains(e.text, TooLarge),
                   !.msg = "upload failed", !.err = e]
    ELSE [r EXCEPT !.needRetry = FALSE, !.msg = "upload failed", !.err = e]

\* A success handler that leaves the retry flag of the handlers' default set.
OnSuccessResultKeepsRetry(r) == [r EXCEPT !.succeed = TRUE, !.needRetry = TRUE]

\* The OnSuccess handler: the result it leaves.
OnSuccessResult(r) == [r EXCEPT !.succeed = TRUE]

\* A status callback that writes the store whether or not the signal is ready.
StatusTakesSignalAlways(ready) == TRUE

\* The select of the status callback: the receive case is taken when the
\* signal is ready, the default case otherwise.
StatusTakesSignal(ready) == ready

\* The OnError handler: the store it leaves.
OnErrorStore(e, st) ==
    IF e.pcs /\ e.type = "remote" /\ e.code = CodeStateExpired THEN Absent ELSE st

-----------------------------------------------------------------------------
\* The retry executor.

\* A retry test that allows one retry too many.
ShouldRetryOffByOne(r, n, ceiling) == r.needRetry /\ n <= ceiling

\* needsRetry and retry counter < ceiling
ShouldRetry(r, n, ceiling) == r.needRetry /\ n < ceiling

-----------------------------------------------------------------------------
\* The upload task unit under its executor: actions.

UploadInit ==
    /\ cfg \in [noRapid : BOOLEAN, tooBig : BOOLEAN, maxRetry : 0..MaxRetryCeiling]
    /\ store \in {Absent, Placeholder} \cup {Checkpoint(d) : d \in SUBSET Blocks}
    /\ md5 = NoMD5
    /\ utuState = NilState
    /\ step = StepUploadInit
    /\ pcRun = "ready"
    /\ result = EmptyResult
    /\ retry = 0
    /\ outcome = "none"
    /\ failedResult = NilResult
    /\ seed = NilState
    /\ uploaded = {}
    /\ updateReady = FALSE
    /\ pcStatus = "idle"
    /\ statusCalls = 0
    /\ runs = 0
    /\ allRetry = TRUE
    /\ hist = NoHist

\* No upload task: the state of the upload variables while only the printer runs.
UploadIdle ==
    /\ cfg = [noRapid |-> FALSE, tooBig |-> FALSE, maxRetry |-> 0]
    /\ store = Absent
    /\ md5 = NoMD5
    /\ utuState = NilState
    /\ step = StepUploadInit
    /\ pcRun = "ready"
    /\ result = EmptyResult
    /\ retry = 0
    /\ outcome = "none"
    /\ failedResult = NilResult
    /\ seed = NilState
    /\ uploaded = {}
    /\ updateReady = FALSE
    /\ pcStatus = "idle"
    /\ statusCalls = 0
    /\ runs = 0
    /\ allRetry = TRUE
    /\ hist = NoHist

\* Run, up to the dispatch on utu.Step: OpenPath, then prepareFile.  A retry
\* starts after RetryWait, by when a status callback of the previous attempt
\* that was still in flight has ended.
RunStart(readable) ==
    /\ pcRun = "ready"
    /\ pcStatus = "idle"
    /\ runs' = runs + 1
    /\ IF ~readable
       THEN /\ result' = NilResult
            /\ pcRun' = "returned"
            /\ allRetry' = FALSE
            /\ hist' = [RunHist(hist, store, md5) EXCEPT
                          !.lines = <<"preparing upload", "file unreadable, skip">>]
            /\ UNCHANGED <<utuState, md5, step>>
       ELSE /\ utuState' = Search(store)
            /\ md5' = SearchMD5(store, md5)
            /\ step' = prepareFile(Search(store), SearchMD5(store, md5), cfg)
            /\ pcRun' = IF step' = StepUploadRapidUpload THEN "rapid" ELSE "upload"
            /\ result' = EmptyResult
            /\ hist' = [RunHist(hist, store, md5) EXCEPT
                          !.opened = TRUE,
                          !.searched = TRUE,
                          !.lines = <<"preparing upload">>
                                    \o PrepareLines(Search(store),
                                                    SearchMD5(store, md5), cfg)]
            /\ UNCHANGED allRetry
    /\ UNCHANGED <<cfg, store, retry, outcome, failedResult, seed, uploaded,
                   updateReady, pcStatus, statusCalls>>
    /\ UNCHANGED printerVars

\* Run at stepUploadRapidUpload: the whole of rapidUpload, and the return of
\* its result when it does not continue.
RapidUploadStage ==
    /\ pcRun = "rapid"
    /\ \E lerr \in {NoErr} \cup ListErrs, sumOk \in BOOLEAN,
          rerr \in {NoErr} \cup RapidErrs, large \in BOOLEAN :
       \E entries \in (IF lerr = NoErr THEN SUBSET RemoteEntries ELSE {{}}) :
       LET o == rapidUpload(entries, lerr, sumOk, rerr) IN
        /\ step' = StepUploadRapidUpload
        /\ md5' = IF o.summed THEN LocalMD5 ELSE md5
        /\ store' = IF o.placeholder THEN UpdateUploading(NilState) ELSE store
        /\ result' = o.result
        /\ pcRun' = IF o.continue THEN "upload" ELSE "returned"
        /\ allRetry' = IF o.continue THEN allRetry ELSE (allRetry /\ o.result.needRetry)
        /\ hist' = [hist EXCEPT
                      !.enteredRapid = TRUE,
                      !.listed = (lerr = NoErr),
                      !.match = (sumOk /\ \E fd \in entries :
                                    /\ fd.name = PanFile
                                    /\ fd.md5 \in {HexSpell(LocalMD5, HexDigits),
                                                   HexSpell(LocalMD5, UpperHexDigits)}),
                      !.sumCalled = ~ListingFails(lerr),
                      !.rapidCalled = o.rapidCalled,
                      !.rapidErr = IF o.rapidCalled THEN rerr ELSE NoErr,
                      !.writes = IF o.placeholder THEN @ + 1 ELSE @,
                      !.listErr = lerr,
                      !.sums = IF o.summed THEN @ + 1 ELSE @,
                      !.rapids = IF o.rapidCalled THEN @ + 1 ELSE @,
                      !.lines = @ \o SumHint(lerr, large) \o o.lines]
    /\ UNCHANGED <<cfg, utuState, retry, outcome, failedResult, seed, uploaded,
                   updateReady, pcStatus, statusCalls, runs>>
    /\ UNCHANGED printerVars

\* Run at stepUploadUpload: upload() up to muer.Execute(): the uploader is
\* created, seeded with utu.state when there is one, and given its callbacks.
UploadStart ==
    /\ pcRun = "upload"
    /\ step' = StepUploadUpload
    /\ seed' = Seed(utuState)
    /\ uploaded' = {}
    /\ updateReady' = FALSE
    /\ result' = EmptyResult
    /\ pcRun' = "executing"
    /\ hist' = [hist EXCEPT !.enteredUpload = TRUE, !.seeded = Seed(utuState)]
    /\ UNCHANGED <<cfg, store, md5, utuState, retry, outcome, failedResult,
                   pcStatus, statusCalls, runs, allRetry>>
    /\ UNCHANGED printerVars

\* The multipart uploader transfers a block that is not complete yet, and
\* signals that its instance state changed.
TransferBlock(b) ==
    /\ pcRun = "executing"
    /\ b \in Blocks \ (seed.done \cup uploaded)
    /\ uploaded' = uploaded \cup {b}
    /\ updateReady' = TRUE
    /\ UNCHANGED <<cfg, store, md5, utuState, step, pcRun, result, retry,
                   outcome, failedResult, seed, pcStatus, statusCalls, runs,
                   allRetry, hist>>
    /\ UNCHANGED printerVars

\* The status callback, first half: the non-blocking receive from updateChan.
\* Without a signal the callback only prints the progress line and ends.
StatusPoll ==
    /\ pcRun = "executing"
    /\ pcStatus = "idle"
    /\ statusCalls < MaxStatusCalls
    /\ statusCalls' = statusCalls + 1
    /\ IF StatusTakesSignal(updateReady)
       THEN /\ updateReady' = FALSE
            /\ pcStatus' = "persist"
            /\ hist' = [hist EXCEPT !.cbSignal = @ + 1]
       ELSE /\ hist' = [hist EXCEPT !.cbDone = @ + 1, !.cbProgress = @ + 1,
                                    !.lines = Append(@, "progress")]
            /\ UNCHANGED <<updateReady, pcStatus>>
    /\ UNCHANGED <<cfg, store, md5, utuState, step, pcRun, result, retry,
                   outcome, failedResult, seed, uploaded, runs, allRetry>>
    /\ UNCHANGED printerVars

\* The status callback, second half: UpdateUploading(meta, muer.InstanceState()),
\* Save, and the progress line.
StatusPersist ==
    /\ pcStatus = "persist"
    /\ store' = UpdateUploading(InstanceState(seed, uploaded))
    /\ pcStatus' = "idle"
    /\ hist' = [hist EXCEPT !.cbDone = @ + 1, !.cbPersist = @ + 1,
                            !.cbProgress = @ + 1,
                            !.lines = Append(@, "progress")]
    /\ UNCHANGED <<cfg, md5, utuState, step, pcRun, result, retry, outcome,
                   failedResult, seed, uploaded, updateReady, statusCalls,
                   runs, allRetry>>
    /\ UNCHANGED printerVars

\* The success callback, called once every block is complete: Delete, Save,
\* result.Succeed = true.
OnSuccess ==
    /\ pcRun = "executing"
    /\ seed.done \cup uploaded = Blocks
    /\ store' = Absent
    /\ result' = OnSuccessResult(result)
    /\ pcRun' = "finishing"
    /\ hist' = [hist EXCEPT !.writes = @ + 1,
                            !.lines = Append(@, "upload succeeded")]
    /\ UNCHANGED <<cfg, md5, utuState, step, retry, outcome, failedResult,
                   seed, uploaded, updateReady, pcStatus, statusCalls, runs,
                   allRetry>>
    /\ UNCHANGED printerVars

\* The error callback, called with the error that ended the transfer.
OnError(e) ==
    /\ pcRun = "executing"
    /\ result' = OnErrorResult(e, result)
    /\ store' = OnErrorStore(e, store)
    /\ pcRun' = "finishing"
    /\ hist' = [hist EXCEPT !.uploadErr = e, !.errStoreBefore = store,
                            !.errStoreAfter = OnErrorStore(e, store)]
    /\ UNCHANGED <<cfg, md5, utuState, step, retry, outcome, failedResult,
                   seed, uploaded, updateReady, pcStatus, statusCalls, runs,
                   allRetry>>
    /\ UNCHANGED printerVars

\* muer.Execute() returns, upload returns its result, Run returns it.
UploadReturn ==
    /\ pcRun = "finishing"
    /\ pcRun' = "returned"
    /\ allRetry' = (allRetry /\ result.needRetry)
    /\ UNCHANGED <<cfg, store, md5, utuState, step, result, retry, outcome,
                   failedResult, seed, uploaded, updateReady, pcStatus,
                   statusCalls, runs, hist>>
    /\ UNCHANGED printerVars

\* Executor: the run succeeded; OnSuccess, OnComplete.
ExecSuccess ==
    /\ pcRun = "returned"
    /\ result.present /\ result.succeed
    /\ outcome' = "success"
    /\ pcRun' = "done"
    /\ UNCHANGED <<cfg, store, md5, utuState, step, result, retry, failedResult,
                   seed, uploaded, updateReady, pcStatus, statusCalls, runs,
                   allRetry, hist>>
    /\ UNCHANGED printerVars

\* Executor: OnRetry (which prints the last result), the counter is
\* incremented, RetryWait, Run again.
ExecRetry ==
    /\ pcRun = "returned"
    /\ result.present /\ ~result.succeed
    /\ ShouldRetry(result, retry, cfg.maxRetry)
    /\ retry' = retry + 1
    /\ pcRun' = "ready"
    /\ hist' = [hist EXCEPT !.lines = Append(@, "retry")]
    /\ UNCHANGED <<cfg, store, md5, utuState, step, result, outcome,
                   failedResult, seed, uploaded, updateReady, pcStatus,
                   statusCalls, runs, allRetry>>
    /\ UNCHANGED printerVars

\* Executor: OnFailed with the last result (which prints it), OnComplete.
ExecFailed ==
    /\ pcRun = "returned"
    /\ result.present /\ ~result.succeed
    /\ ~ShouldRetry(result, retry, cfg.maxRetry)
    /\ failedResult' = result
    /\ outcome' = "failure"
    /\ pcRun' = "done"
    /\ hist' = [hist EXCEPT !.lines = Append(@, "failed")]
    /\ UNCHANGED <<cfg, store, md5, utuState, step, result, retry, seed,
                   uploaded, updateReady, pcStatus, statusCalls, runs,
                   allRetry>>
    /\ UNCHANGED printerVars

\* Executor: Run returned no result.
ExecAbsent ==
    /\ pcRun = "returned"
    /\ ~result.present
    /\ outcome' = "absent"
    /\ pcRun' = "done"
    /\ UNCHANGED <<cfg, store, md5, utuState, step, result, retry, failedResult,
                   seed, uploaded, updateReady, pcStatus, statusCalls, runs,
                   allRetry, hist>>
    /\ UNCHANGED printerVars

UploadNext ==
    \/ \E readable \in BOOLEAN : RunStart(readable)
    \/ RapidUploadStage
    \/ UploadStart
    \/ \E b \in Blocks : TransferBlock(b)
    \/ StatusPoll
    \/ StatusPersist
    \/ OnSuccess
    \/ \E e \in UploadErrs : OnError(e)
    \/ UploadReturn
    \/ ExecSuccess
    \/ ExecRetry
    \/ ExecFailed
    \/ ExecAbsent

InitPrinter == PrinterInit /\ UploadIdle

InitUpload == UploadInit /\ PrinterInit

\* The printer alone, and the upload task unit alone.
SpecPrinter == InitPrinter /\ [][PrinterNext]_vars

SpecUpload == InitUpload /\ [][UploadNext]_vars

-----------------------------------------------------------------------------
\* Properties of the printer.

\* C1: Stop returns only after the event loop has exited: in no reachable
\* state has Stop returned while the loop is still running or has not started.
C1_StopReturnsAfterLoopExit == pcStop = "returned" => pcLoop = "exited"

\* C2: no event is dropped: when the loop has exited, every event whose send on
\* the channel completed (all of them before Stop sent quit) has been applied
\* by Update, in order, and each was followed by a Render that showed it.
C2_NoEventDropped ==
    /\ reflectOK
    /\ pcLoop = "exited" =>
          /\ appliedLog = sentLog
          /\ renderedCount = Len(sentLog)
          /\ pending = <<>>

\* The loop has exited after two events were sent, one of them a multi-line
\* message, with a spinner tick in between.
C2_Witness ==
    /\ pcLoop = "exited"
    /\ Len(sentLog) = 2
    /\ ticks >= 1
    /\ \E k \in 1..Len(sentLog) :
          sentLog[k].type = "task" /\ Contains(sentLog[k].msg, "\n")
    /\ \E k \in 1..Len(sentLog) :
          sentLog[k].type = "stat" /\ sentLog[k].id \in DOMAIN idMap

IdMapInjective ==
    \A a, b \in DOMAIN idMap : idMap[a] = idMap[b] => a = b

\* The index an id is bound to was first handed out to that id.
IndexNeverReassigned ==
    \A a \in DOMAIN idMap : idMap[a] \in DOMAIN owner /\ owner[idMap[a]] = a

\* A step in which Update applies a status or single-line message event for a
\* registered id writes the row of that id and no other row.
EventWritesOwnRow ==
    (Len(appliedLog') = Len(appliedLog) + 1) =>
        LET m == appliedLog'[Len(appliedLog')] IN
        (Registered(m.id) /\ ~(m.type = "task" /\ Contains(m.msg, "\n"))) =>
            /\ Len(tasks') = Len(tasks)
            /\ tasks[idMap[m.id] + 1].info.id = m.id
            /\ \A i \in 1..Len(tasks) : i # idMap[m.id] + 1 => tasks'[i] = tasks[i]
            /\ IF m.type = "stat"
               THEN tasks'[idMap[m.id] + 1] = [tasks[idMap[m.id] + 1] EXCEPT !.stat = m.stat]
               ELSE tasks'[idMap[m.id] + 1] = [tasks[idMap[m.id] + 1] EXCEPT !.msg = m.msg]

C5_RedrawErasure ==
    (~lastFrame.first /\ lastFrame.rows = lastFrame.prevRows) =>
        \A i \in 1..Len(lastFrame.lines) :
            LET ln == lastFrame.lines[i] IN
            (ln.row /\ StringWidth(ln.text) < ln.old) =>
                ln.pad >= ln.old - StringWidth(ln.text) + Margin

-----------------------------------------------------------------------------
\* Properties of the upload task unit and its executor.

\* C3: when every Run returned NeedRetry, the executor stops after exactly
\* maxRetry retries (maxRetry + 1 calls of Run, the counter at maxRetry),
\* reports failure, and hands OnFailed the result of the last attempt.
C3_RetryTermination ==
    (pcRun = "done" /\ allRetry) =>
        /\ runs = cfg.maxRetry + 1
        /\ retry = cfg.maxRetry
        /\ outcome = "failure"
        /\ failedResult = result
        /\ failedResult.needRetry

\* The executor stopped after two retries of a task that always asked to retry.
C3_Witness ==
    /\ pcRun = "done"
    /\ allRetry
    /\ cfg.maxRetry = 2
    /\ runs = 3

\* The policy table for an error e of the transfer.
TableNeedRetry(e) ==
    CASE e.pcs /\ e.type = "remote" /\ e.code = 31363 -> TRUE
      [] e.pcs /\ e.type = "remote" /\ e.code = 31061 -> FALSE
      [] e.pcs /\ e.type = "remote" /\ e.code \notin {31363, 31061} -> TRUE
      [] e.pcs /\ e.type = "net" /\ Contains(e.text, TooLarge) -> FALSE
      [] e.pcs /\ e.type = "net" /\ ~Contains(e.text, TooLarge) -> TRUE
      [] OTHER -> FALSE

\* C6: the result of the Upload stage after the transfer reported an error has
\* NeedRetry as the table says; the handler deletes the checkpoint for remote
\* code 31363 and leaves the store as it was for every other error.
C6_UploadFailureClassification ==
    (hist.uploadErr # NoErr /\ pcRun \in {"finishing", "returned"}) =>
        /\ result.present
        /\ ~result.succeed
        /\ result.needRetry = TableNeedRetry(hist.uploadErr)
        /\ IF hist.uploadErr.type = "remote" /\ hist.uploadErr.code = 31363
           THEN hist.errStoreAfter.kind = "absent"
           ELSE hist.errStoreAfter = hist.errStoreBefore

\* Run returned after the transfer failed with a duplicate-name rejection
\* while a checkpoint with resume state was stored.
C6_Witness ==
    /\ pcRun = "returned"
    /\ hist.uploadErr = RemoteErr(31061)
    /\ hist.errStoreBefore.kind = "state"
    /\ hist.errStoreBefore.done # {}

\* C7: a rapid-upload call rejected with remote code 31112 ends the run with
\* succeeded = false and needsRetry = false; the Upload stage is not entered
\* and nothing is written to the checkpoint store.
C7_QuotaExceededIsTerminal ==
    (hist.rapidCalled /\ hist.rapidErr = RemoteErr(31112)) =>
        /\ pcRun \in {"returned", "done"}
        /\ result.present
        /\ ~result.succeed
        /\ ~result.needRetry
        /\ ~hist.enteredUpload
        /\ hist.writes = 0
        /\ store = hist.found

\* Run returned after the rapid-upload call was rejected for quota.
C7_Witness ==
    /\ pcRun = "returned"
    /\ hist.rapidCalled
    /\ hist.rapidErr = RemoteErr(31112)

\* C8: in a run that enters Rapid-Upload, when the listing holds an entry of
\* the leaf name whose MD5 is the local MD5 (in either hex spelling), Run
\* returns succeeded = true without the rapid-upload call, without a transfer
\* and without a write to the checkpoint store.
C8_DedupShortCircuit ==
    (hist.enteredRapid /\ hist.match) =>
        /\ pcRun \in {"returned", "done"}
        /\ result.present
        /\ result.succeed
        /\ ~hist.rapidCalled
        /\ ~hist.enteredUpload
        /\ hist.writes = 0
        /\ store = hist.found

\* Run returned from Rapid-Upload with a matching remote entry listed.
C8_Witness ==
    /\ pcRun = "returned"
    /\ hist.enteredRapid
    /\ hist.match

\* C9: a run that found a checkpoint with resume state skips Rapid-Upload and
\* seeds the transfer with exactly that checkpoint, so that no block complete
\* in it is transferred; the transfer is unseeded only when none was found.
C9_ResumeFromCheckpoint ==
    /\ hist.found.kind = "state" => ~hist.enteredRapid
    /\ hist.enteredUpload =>
          /\ hist.seeded = (IF hist.found.kind = "state" THEN hist.found ELSE NilState)
          /\ seed = hist.seeded
          /\ uploaded \cap hist.seeded.done = {}

\* A retry found the checkpoint the first attempt had stored, with block 1
\* complete, and transferred block 2 only.
C9_Witness ==
    /\ retry >= 1
    /\ hist.enteredUpload
    /\ hist.found = Checkpoint({1})
    /\ uploaded = {2}

\* C10: whenever Run returns succeeded = true, the checkpoint store holds no
\* checkpoint for the file identity.
C10_NoCheckpointAfterSuccess ==
    (pcRun = "returned" /\ result.present /\ result.succeed) => store.kind = "absent"

\* C11: every call of Run returns a present Run Result, also when the local
\* file cannot be opened; in that case the result does not ask for a retry, a
\* message was emitted through the printer, and the run made no remote
\* operation and no operation on the checkpoint store.
C11_RunReturnsResult ==
    pcRun = "returned" =>
        /\ result.present
        /\ ~hist.opened =>
              /\ ~result.needRetry
              /\ ~result.succeed
              /\ \E k \in 1..Len(hist.lines) : hist.lines[k] = "file unreadable, skip"
              /\ ~hist.enteredRapid /\ ~hist.enteredUpload
              /\ ~hist.listed /\ ~hist.rapidCalled
              /\ ~hist.searched /\ hist.writes = 0 /\ store = hist.found

\* C14: over all runs of one unit the hashes are successfully computed at most
\* once and the rapid-upload call is made at most once; a run that starts
\* with the MD5 cached goes from Prepare to Upload and never enters
\* Rapid-Upload.
C14_HashCaching ==
    /\ hist.sums <= 1
    /\ hist.rapids <= 1
    /\ (hist.opened /\ hist.cached) =>
          /\ ~hist.enteredRapid
          /\ step = StepUploadUpload

\* A retry that found no entry in the store, with the MD5 cached by the
\* first attempt, entered Upload.
C14_Witness ==
    /\ retry >= 1
    /\ hist.opened
    /\ hist.cached
    /\ hist.found = Absent
    /\ hist.enteredUpload
    /\ hist.sums = 1
    /\ hist.rapids = 1

\* Right after Prepare the stage is Upload exactly when an entry was found in
\* the store, the MD5 was cached, rapid upload is disabled or the file is over
\* the size ceiling; it is Rapid-Upload otherwise.
StageAfterPrepare ==
    (hist.opened /\ pcRun \in {"rapid", "upload"} /\ ~hist.enteredRapid) =>
        /\ step \in {StepUploadRapidUpload, StepUploadUpload}
        /\ (step = StepUploadUpload) <=>
              \/ hist.found.kind # "absent"
              \/ hist.cached
              \/ cfg.noRapid
              \/ cfg.tooBig
        /\ (pcRun = "upload") <=> (step = StepUploadUpload)

\* Within one run the stage does not move backwards.
StageForwardOnly == (runs' = runs) => (step' >= step)

\* C15: the stage after Prepare is chosen as stated, and within a run the
\* stage only moves forward.
C15_PrepareStageSelection ==
    /\ []StageAfterPrepare
    /\ [][StageForwardOnly]_vars

\* Prepare chose Upload for the size alone: nothing found, nothing cached,
\* rapid upload enabled.
C15_Witness ==
    /\ pcRun = "upload"
    /\ hist.opened
    /\ ~hist.enteredRapid
    /\ hist.found = Absent
    /\ ~hist.cached
    /\ ~cfg.noRapid
    /\ cfg.tooBig
    /\ step = StepUploadUpload

\* C16: in Rapid-Upload a listing error with remote code 31066 is an empty
\* listing and the stage goes on to the hashes; another remote error ends the
\* run with needsRetry = false, a non-remote error with needsRetry = true, and
\* in both cases no hash is computed, no rapid-upload call is made and Upload
\* is not entered.
C16_ListingFailurePolicy ==
    hist.enteredRapid =>
        /\ (hist.listErr = RemoteErr(31066)) =>
              /\ hist.sumCalled
              /\ ~hist.match
              /\ result.succeed => hist.rapidCalled
        /\ (hist.listErr # NoErr /\ hist.listErr # RemoteErr(31066)) =>
              /\ pcRun \in {"returned", "done", "ready"}
              /\ result.present
              /\ ~result.succeed
              /\ result.needRetry = (hist.listErr.type # "remote")
              /\ result.err = hist.listErr
              /\ ~hist.sumCalled
              /\ md5 = NoMD5
              /\ ~hist.rapidCalled
              /\ ~hist.enteredUpload

\* One run ended on a listing that failed with a network error, and the retry
\* went past a listing answered with "directory absent".
C16_Witness ==
    /\ retry >= 1
    /\ hist.enteredRapid
    /\ hist.listErr = RemoteErr(31066)
    /\ hist.rapidCalled

\* A step of the status callback: called without the signal it leaves the
\* store alone and ends with one progress line; called with the signal it
\* takes the signal, and its second half writes the transfer state and emits
\* one progress line.
StatusCallbackStep ==
    /\ (statusCalls' = statusCalls + 1) =>
          IF updateReady
          THEN /\ ~updateReady'
               /\ pcStatus' = "persist"
               /\ hist'.cbProgress = hist.cbProgress
          ELSE /\ store' = store
               /\ pcStatus' = "idle"
               /\ hist'.cbDone = hist.cbDone + 1
               /\ hist'.cbProgress = hist.cbProgress + 1
    /\ (pcStatus = "persist" /\ pcStatus' = "idle") =>
          /\ store' = Checkpoint(seed.done \cup uploaded)
          /\ hist'.cbDone = hist.cbDone + 1
          /\ hist'.cbProgress = hist.cbProgress + 1

\* C17: a status callback writes the transfer state to the store exactly when
\* the signal is ready at its call, taking the signal; it never waits for the
\* signal; every callback emits exactly one progress line.
C17_StatusCallback ==
    /\ [](/\ hist.cbProgress = hist.cbDone
          /\ hist.cbPersist + (IF pcStatus = "persist" THEN 1 ELSE 0) = hist.cbSignal)
    /\ [][StatusCallbackStep]_vars

\* Two callbacks ended in one run, one that found the signal and wrote the
\* store and one that found none.
C17_Witness ==
    /\ hist.cbDone = 2
    /\ hist.cbPersist = 1
    /\ hist.cbProgress = 2
    /\ pcStatus = "idle"

-----------------------------------------------------------------------------
\* More properties of the printer.

\* C12: while the event loop runs, the render state (id-to-row map, rows with
\* their status, message and retry counter, scroll-back block, mask, spinner
\* frame) is changed by steps of the loop thread only.
C12_RenderStateOwnership ==
    [][(/\ pcLoop \in {"render", "select"}
        /\ <<idMap, tasks, multiLineMsg, mask, frame>>'
              # <<idMap, tasks, multiLineMsg, mask, frame>>)
       => pcLoop' # pcLoop]_vars

\* C13: in every redraw after the first the cursor is moved up by the number
\* of lines the previous redraw emitted.
C13_CursorRepositioning ==
    ~lastFrame.first => lastFrame.up = lastFrame.prevLines

\* The number of multi-line message events in a log of events.
MultiLineCount(log) == Cardinality({k \in 1..Len(log) : IsMultiLine(log[k])})

\* The lines a multi-line message event is displayed as.
BlockOf(m) == Split(<<"[">> \o m.id \o <<"]", " ">> \o m.msg, "\n")

\* The last frame shows, above the separator and the rows, the block of the
\* multi-line message it followed, and no block when it followed none; the
\* blocks shown so far are as many as the multi-line messages applied and
\* rendered; at most one multi-line message waits for its redraw.
BlockShownOnce ==
    /\ Len(MultiLineOf(pending)) <= 1
    /\ Len(lastFrame.afterMulti) <= 1
    /\ lastFrame.blocks = MultiLineCount(appliedLog) - Len(MultiLineOf(pending))
    /\ lastFrame.lines # <<>> =>
          LET shown == IF lastFrame.afterMulti = <<>> THEN <<>>
                       ELSE BlockOf(lastFrame.afterMulti[1])
          IN  /\ Len(lastFrame.lines) = Len(shown) + 1 + lastFrame.rows
              /\ \A i \in 1..Len(shown) : lastFrame.lines[i].text = shown[i]
              /\ lastFrame.lines[Len(shown) + 1].text = Separator

\* A step in which Update applies a multi-line message leaves every row as
\* it was.
MultiLineLeavesRows ==
    (/\ Len(appliedLog') = Len(appliedLog) + 1
     /\ IsMultiLine(appliedLog'[Len(appliedLog')])) => tasks' = tasks

\* C19: a message with an interior line break changes no row, is displayed
\* above the table in the redraw that follows it and in no later redraw, and
\* is never replaced by a later one before it was displayed.
C19_OneShotScrollBack ==
    /\ []BlockShownOnce
    /\ [][MultiLineLeavesRows]_vars

\* A multi-line message was displayed in one frame, and the frame drawn after
\* the next event shows no block.
C19_Witness ==
    /\ lastFrame.blocks = 1
    /\ lastFrame.afterMulti = <<>>
    /\ lastFrame.rows >= 1
    /\ Len(lastFrame.lines) = 1 + lastFrame.rows
    /\ Len(appliedLog) = 2
    /\ IsMultiLine(appliedLog[1])
    /\ pending = <<>>

\* The text of a row: glyph of the status, the id in brackets, the message if
\* any, the retry suffix if the retry count is positive.
ExpectedRow(t, f) ==
    << CASE t.stat = 0 -> "-"
         [] t.stat = 1 -> Frames[(f % 8) + 1]
         [] t.stat = 2 -> "check"
         [] t.stat = 3 -> "X" >>
    \o <<" ", "[">> \o t.info.id \o <<"]">>
    \o (IF t.msg = <<>> THEN <<>> ELSE <<" ">> \o t.msg)
    \o (IF t.info.retry = 0 THEN <<>>
        ELSE <<" ", "(", "CJK4", "CJK5", ":", " ">> \o FormatInt(t.info.retry)
             \o <<"/">> \o FormatInt(t.info.maxRetry) \o <<")">>)

\* The effect of one step of the loop on the render state.
FrameEffect ==
    /\ (Len(appliedLog') = Len(appliedLog) + 1) =>
          LET m == appliedLog'[Len(appliedLog')] IN
          /\ <<idMap, mask, frame, quit>>' = <<idMap, mask, frame, quit>>
          /\ ~IsMultiLine(m) =>
                /\ multiLineMsg' = multiLineMsg
                /\ Len(tasks') = Len(tasks)
                /\ m.id \notin DOMAIN idMap => tasks' = tasks
                /\ Registered(m.id) =>
                      /\ \A i \in 1..Len(tasks) :
                            i # idMap[m.id] + 1 => tasks'[i] = tasks[i]
                      /\ tasks'[idMap[m.id] + 1].info = tasks[idMap[m.id] + 1].info
                      /\ IF m.type = "stat"
                         THEN /\ tasks'[idMap[m.id] + 1].stat = m.stat
                              /\ tasks'[idMap[m.id] + 1].msg = tasks[idMap[m.id] + 1].msg
                         ELSE /\ tasks'[idMap[m.id] + 1].msg = m.msg
                              /\ tasks'[idMap[m.id] + 1].stat = tasks[idMap[m.id] + 1].stat
    /\ (ticks' = ticks + 1) =>
          /\ frame' = frame + 1
          /\ <<idMap, tasks, multiLineMsg, mask, quit>>'
                = <<idMap, tasks, multiLineMsg, mask, quit>>
    /\ (pcLoop = "render" /\ pcLoop' = "select") =>
          /\ lastFrame'.rows = Len(tasks)
          /\ \A i \in 1..Len(tasks) :
                lastFrame'.lines[Len(lastFrame'.lines) - Len(tasks) + i].text
                    = ExpectedRow(tasks[i], frame)

\* C20: a status event changes only the status of its row, a single-line
\* message only the message of its row, a spinner tick only the frame, an
\* event for an unregistered id nothing; every row is rendered as glyph, id
\* in brackets, message and retry suffix, so the row of f1 after message m and
\* status Done is the check glyph, "[f1]" and m.
C20_FrameEffect == [][FrameEffect]_vars

\* The frame on screen shows the row of f1 as check glyph, "[f1]" and the
\* message "a", after a message event and a Done event for f1.
C20_Witness ==
    /\ Len(tasks) >= 1
    /\ tasks[1].info.id = <<"f", "1">>
    /\ tasks[1].stat = TaskDone
    /\ Len(appliedLog) = 2
    /\ lastFrame.rows = Len(tasks)
    /\ lastFrame.lines[Len(lastFrame.lines) - lastFrame.rows + 1].text
          = <<"check", " ", "[", "f", "1", "]", " ", "a">>

====
